---- MODULE Spec2Model ----
(***************************************************************************)
(* Worktree reconciliation core of app/api/worktrees/route.ts:             *)
(* createWorktreeForRepo (create), DELETE (delete) and the naming          *)
(* convention parsed back by GET (discovery), over a model of the git      *)
(* worktree registry and of the filesystem below WORKTREE_ROOT.            *)
(* Strings are TLC strings; \o, Len and SubSeq act on them as on           *)
(* sequences of characters.                                                *)
(***************************************************************************)
EXTENDS Integers, Sequences, FiniteSets, TLC

VARIABLES
    cloned,      \* <ROOT_DIR>/<repo>/.git exists
    heads,       \* local branches of the clone (refs/heads/*)
    mainHead,    \* branch checked out in the primary clone
    reg,         \* git's worktree registry: path -> branch ("" = not registered)
    fs,          \* what is on disk at each worktree path
    remote,      \* branches of origin
    token,       \* a credential is available (getGitHubToken() # null)
    cx,          \* per request: position in the handler and its locals
    lastDone,    \* history: the most recent completed request or outside event
    nOps,        \* requests started so far
    nEnv,        \* outside events so far
    faultsLeft,  \* spurious subprocess / filesystem failures still allowed
    parseIn,     \* naming round trip: the identity being derived
    parseOut,    \* naming round trip: what the two discovery parsers returned
    hostRoot,    \* HOST_ROOT_DIR of the deployment
    ptr,         \* content of <worktree path>/.git (when it is a file)
    gdir,        \* content of the registration's gitdir file: the worktree's path
    ls,          \* the GET request: position in the handler and its locals
    nLists,      \* GET requests started so far
    conf,        \* REPO_MAP and REPO_NAME_MAP, as loaded from the environment
    normIn,      \* path normalization: the two roots and the path handed in
    normOut,     \* path normalization: the result, and the result of a second pass
    rq,          \* the POST request: position in the handler and its locals
    made,        \* worktree paths of all repositories that hold a worktree
    nPosts       \* POST requests started so far

vars == <<cloned, heads, mainHead, reg, fs, remote, token, cx, lastDone, nOps,
          nEnv, faultsLeft, parseIn, parseOut, hostRoot, ptr, gdir, ls, nLists, conf,
          normIn, normOut, rq, made, nPosts>>

worldVars == <<cloned, heads, mainHead, reg, fs>>
parseVars == <<parseIn, parseOut, normIn, normOut>>
listVars == <<hostRoot, ptr, gdir, ls, nLists>>
confVars == <<conf>>
postVars == <<rq, made, nPosts>>

-----------------------------------------------------------------------------
(* Bounds of the model *)
MaxOps == 3
MaxEnv == 2
MaxFaults == 1
MaxConcOps == 2
MaxNameLen == 3
MaxLists == 2
MaxListOps == 2
MaxRepos == 3
MaxPosts == 1
MaxResolveOps == 2

-----------------------------------------------------------------------------
(* Configuration *)
ROOT_DIR == "/repos"
HOST_ROOT_DIR == "/host"
WORKTREE_ROOT == ROOT_DIR \o "/Tree"
VALID_TYPES == {"feat", "bugs", "fixes"}

\* the environment getRepoMap reads: the defaults, a key that is its own
\* repository's name (FRONTEND_KEY = FRONTEND_REPO), and a name that is its
\* own key (VIEWER_REPO = VIEWER_KEY)
DefaultEnv ==
    [GITHUB_ORG |-> "AutoRemediation",
     FRONTEND_REPO |-> "sideline-frontend", VIEWER_REPO |-> "ohif-viewer",
     BACKEND_REPO |-> "sideline-backend",
     FRONTEND_KEY |-> "frontend", VIEWER_KEY |-> "viewer", BACKEND_KEY |-> "backend"]
Envs ==
    {DefaultEnv,
     [DefaultEnv EXCEPT !.FRONTEND_KEY = "sideline-frontend"],
     [DefaultEnv EXCEPT !.VIEWER_REPO = "viewer"]}

\* the entries of getRepoMap's object literal, in the order written
repoEntries(e) ==
    << [key |-> e.FRONTEND_KEY, name |-> e.FRONTEND_REPO],
       [key |-> e.VIEWER_KEY, name |-> e.VIEWER_REPO],
       [key |-> e.BACKEND_KEY, name |-> e.BACKEND_REPO] >>

\* the last index of seq whose element satisfies Test
LastWhere(seq, Test(_)) ==
    CHOOSE i \in DOMAIN seq :
        Test(seq[i]) /\ \A j \in DOMAIN seq : j > i => ~Test(seq[j])

\* getRepoMap(): a later entry with the same key replaces an earlier one
getRepoMap(e) ==
    LET entries == repoEntries(e) IN
    [k \in {entries[i].key : i \in DOMAIN entries} |->
        LET i == LastWhere(entries, LAMBDA x : x.key = k)
        IN  [name |-> entries[i].name,
             url |-> "https://github.com/" \o e.GITHUB_ORG \o "/" \o entries[i].name]]

\* the loop filling REPO_NAME_MAP over Object.entries(REPO_MAP): a later key
\* with the same name replaces an earlier one
getRepoNameMap(e) ==
    LET entries == repoEntries(e)
        map == getRepoMap(e)
        keys == [i \in DOMAIN entries |-> entries[i].key]
    IN  [n \in {map[k].name : k \in DOMAIN map} |->
            LET i == LastWhere(keys, LAMBDA k : map[k].name = n)
            IN  [key |-> keys[i], name |-> n, url |-> map[keys[i]].url]]

\* the two tables as the module computes them once when it is loaded
loadConf(e) == [REPO_MAP |-> getRepoMap(e), REPO_NAME_MAP |-> getRepoNameMap(e)]

REPO_MAP == getRepoMap(DefaultEnv)
REPO_NAME_MAP == getRepoNameMap(DefaultEnv)

NONE == ""

-----------------------------------------------------------------------------
(* String helpers: the JavaScript string operations the handlers use *)

\* s.includes(sub)
Includes(s, sub) ==
    \E i \in 0..(Len(s) - Len(sub)) : SubSeq(s, i + 1, i + Len(sub)) = sub

\* s.indexOf(sub) + 1; 0 when absent
IndexOf(s, sub) ==
    IF Includes(s, sub)
    THEN CHOOSE i \in 1..(Len(s) - Len(sub) + 1) :
            /\ SubSeq(s, i, i + Len(sub) - 1) = sub
            /\ \A j \in 1..(i - 1) : SubSeq(s, j, j + Len(sub) - 1) # sub
    ELSE 0

\* s.replace(from, to) with a string pattern: the first occurrence only
ReplaceFirst(s, from, to) ==
    LET i == IndexOf(s, from) IN
    IF i = 0 THEN s
    ELSE SubSeq(s, 1, i - 1) \o to \o SubSeq(s, i + Len(from), Len(s))

\* s.startsWith(prefix)
StartsWith(s, prefix) ==
    Len(s) >= Len(prefix) /\ SubSeq(s, 1, Len(prefix)) = prefix

\* p.replace(/\/$/, '')
StripSlash(p) ==
    IF Len(p) > 0 /\ SubSeq(p, Len(p), Len(p)) = "/"
    THEN SubSeq(p, 1, Len(p) - 1) ELSE p

\* path.join(a, b) for clean segments
Join(a, b) == a \o "/" \o b

\* normalizePath with the two roots as the deployment configures them
normalizePathUnder(root, host, p) ==
    LET stripped == StripSlash(p) IN
    IF Includes(stripped, host) /\ root # host
    THEN ReplaceFirst(stripped, host, root)
    ELSE stripped

normalizePath(p) ==
    LET stripped == StripSlash(p) IN
    IF Includes(stripped, HOST_ROOT_DIR) /\ ROOT_DIR # HOST_ROOT_DIR
    THEN ReplaceFirst(stripped, HOST_ROOT_DIR, ROOT_DIR)
    ELSE stripped

-----------------------------------------------------------------------------
(* Identity derivation *)
repoPathOf(name) == Join(ROOT_DIR, name)
branchNameOf(name, type, nm) == name \o "-" \o type \o "-" \o nm
worktreePathOf(name, type, nm) ==
    Join(Join(WORKTREE_ROOT, name), branchNameOf(name, type, nm))

-----------------------------------------------------------------------------
(* Discovery's parser of the naming convention (GET, both passes) *)

\* s.split(sep) for a one-character separator
RECURSIVE SplitOn(_, _)
SplitOn(s, sep) ==
    LET i == IndexOf(s, sep) IN
    IF i = 0 THEN <<s>>
    ELSE <<SubSeq(s, 1, i - 1)>> \o SplitOn(SubSeq(s, i + 1, Len(s)), sep)

\* parts.join(sep)
RECURSIVE JoinWith(_, _)
JoinWith(parts, sep) ==
    IF Len(parts) = 0 THEN ""
    ELSE IF Len(parts) = 1 THEN parts[1]
    ELSE parts[1] \o sep \o JoinWith(Tail(parts), sep)

\* path.basename(p)
Basename(p) == LET parts == SplitOn(p, "/") IN parts[Len(parts)]

\* typeAndNameParts.slice(1).join('-') taken wrongly as the second token alone
nameOfPartsSecondOnly(parts) == parts[2]

\* typeAndNameParts.slice(1).join('-')
nameOfParts(parts) == JoinWith(Tail(parts), "-")

Rejected == [ok |-> FALSE, type |-> NONE, name |-> NONE]

\* git-registry pass: the bracketed branch of a `git worktree list` line
parseRegistryBranch(configName, branchName) ==
    IF ~StartsWith(branchName, configName \o "-") THEN Rejected
    ELSE LET typeAndName == SubSeq(branchName, Len(configName) + 2, Len(branchName))
             typeAndNameParts == SplitOn(typeAndName, "-")
         IN  IF Len(typeAndNameParts) < 2 THEN Rejected
             ELSE IF typeAndNameParts[1] \notin VALID_TYPES THEN Rejected
             ELSE [ok |-> TRUE, type |-> typeAndNameParts[1],
                   name |-> nameOfParts(typeAndNameParts)]

\* filesystem pass: a directory name below <WORKTREE_ROOT>/<repo>/
parseFsDirName(configName, dirName) ==
    IF ~StartsWith(dirName, configName \o "-") THEN Rejected
    ELSE LET branchTypeAndName == SubSeq(dirName, Len(configName) + 2, Len(dirName))
             branchTypeAndNameParts == SplitOn(branchTypeAndName, "-")
         IN  IF Len(branchTypeAndNameParts) < 2 THEN Rejected
             ELSE IF branchTypeAndNameParts[1] \notin VALID_TYPES THEN Rejected
             ELSE LET fsTypeAndNameParts ==
                          SplitOn(SubSeq(dirName, Len(configName) + 2, Len(dirName)), "-")
                  IN  IF Len(fsTypeAndNameParts) < 2 THEN Rejected
                      ELSE [ok |-> TRUE, type |-> branchTypeAndNameParts[1],
                            name |-> nameOfParts(fsTypeAndNameParts)]

\* Inputs of the round trip: configured repository names, recognized types,
\* names over [A-Za-z0-9_-] of bounded length
NameChars == {"a", "Z", "7", "_", "-"}
ParseRepoNames == {"sideline-frontend", "ohif-viewer", "sideline-backend"}

RECURSIVE NamesUpTo(_)
NamesUpTo(n) ==
    IF n = 0 THEN {""}
    ELSE LET shorter == NamesUpTo(n - 1)
         IN  shorter \cup {s \o c : s \in shorter, c \in NameChars}

ValidNames == NamesUpTo(MaxNameLen) \ {""}

-----------------------------------------------------------------------------
(* The repository the requests address, and the worktree paths of the model *)
Repo == REPO_MAP["frontend"].name
repoPath == repoPathOf(Repo)

\* (type, name) pairs of the requests, in the order git lists their worktrees
IdentSeq == << [type |-> "bugs", name |-> "a"], [type |-> "feat", name |-> "a"] >>
Idents == {IdentSeq[i] : i \in DOMAIN IdentSeq}
PathSeq == [i \in DOMAIN IdentSeq |->
               worktreePathOf(Repo, IdentSeq[i].type, IdentSeq[i].name)]
Paths == {PathSeq[i] : i \in DOMAIN PathSeq}
IdentBranches == {branchNameOf(Repo, id.type, id.name) : id \in Idents}

\* what a worktree path holds on disk:
\*   absent - nothing;  dir - a directory without .git;
\*   wt - a directory whose .git is a file;  repo - a directory whose .git is a directory
FsKinds == {"absent", "dir", "wt", "repo"}

World == [cloned |-> cloned, heads |-> heads, mainHead |-> mainHead,
          reg |-> reg, fs |-> fs]

SetWorld(w) ==
    /\ cloned' = w.cloned
    /\ heads' = w.heads
    /\ mainHead' = w.mainHead
    /\ reg' = w.reg
    /\ fs' = w.fs

existsSync(w, p) == IF p = repoPath THEN w.cloned ELSE p \in Paths /\ w.fs[p] # "absent"
gitEntryIsDirectory(w, p) == p \in Paths /\ w.fs[p] = "repo"

\* rmSync(p, {recursive: true, force: true})
rmSync(w, p) == IF p \in Paths THEN [w EXCEPT !.fs[p] = "absent"] ELSE w

-----------------------------------------------------------------------------
(* git, as the handlers use it.  Each command yields [ok, w]: whether it     *)
(* exited 0 and the state it leaves.                                        *)

Prunable(w, p) == w.reg[p] # NONE /\ w.fs[p] \in {"absent", "dir"}
CheckedOutInWorktree(w, b) == \E p \in Paths : w.reg[p] = b
CheckedOut(w, b) == w.mainHead = b \/ CheckedOutInWorktree(w, b)

\* one line of `git worktree list`
listLine(p, branch, prunable) ==
    p \o "  0a1b2c3 [" \o branch \o "]" \o (IF prunable THEN " prunable" ELSE "")

gitWorktreeList(w) ==
    LET registered == SelectSeq(PathSeq, LAMBDA p : w.reg[p] # NONE)
    IN  <<listLine(repoPath, w.mainHead, FALSE)>> \o
        [i \in DOMAIN registered |->
            listLine(registered[i], w.reg[registered[i]], Prunable(w, registered[i]))]

\* git worktree remove --force <p>
gitWorktreeRemove(w, p) ==
    IF w.cloned /\ p \in Paths /\ w.reg[p] # NONE /\ w.fs[p] \in {"absent", "wt"}
    THEN [ok |-> TRUE, w |-> [w EXCEPT !.reg[p] = NONE, !.fs[p] = "absent"]]
    ELSE [ok |-> FALSE, w |-> w]

\* git worktree prune
gitWorktreePrune(w) ==
    IF w.cloned
    THEN [ok |-> TRUE,
          w |-> [w EXCEPT !.reg = [p \in Paths |->
                                     IF Prunable(w, p) THEN NONE ELSE w.reg[p]]]]
    ELSE [ok |-> FALSE, w |-> w]

\* git worktree add <p> <branch> taken as refusing a branch that exists
gitWorktreeAddExistingRefused(w, p, branch) == [ok |-> FALSE, w |-> w]

\* git worktree add <p> <branch>
gitWorktreeAddExisting(w, p, branch) ==
    IF /\ w.cloned /\ p \in Paths
       /\ w.fs[p] = "absent" /\ w.reg[p] = NONE
       /\ branch \in w.heads /\ ~CheckedOut(w, branch)
    THEN [ok |-> TRUE, w |-> [w EXCEPT !.reg[p] = branch, !.fs[p] = "wt"]]
    ELSE [ok |-> FALSE, w |-> w]

\* git worktree add -b <branch> <p> <base>
gitWorktreeAddNew(w, p, branch, base) ==
    IF /\ w.cloned /\ p \in Paths
       /\ w.fs[p] = "absent" /\ w.reg[p] = NONE
       /\ branch \notin w.heads /\ base \in w.heads
    THEN [ok |-> TRUE,
          w |-> [w EXCEPT !.reg[p] = branch, !.fs[p] = "wt",
                          !.heads = w.heads \cup {branch}]]
    ELSE [ok |-> FALSE, w |-> w]

\* git show-ref --verify --quiet refs/heads/<b>
gitShowRefHead(w, b) == w.cloned /\ b \in w.heads
\* git show-ref --verify --quiet refs/remotes/origin/<b>
gitShowRefRemote(w, b) == w.cloned /\ b \in remote

\* git checkout <b> in the primary clone (creates <b> from origin/<b> when
\* only the remote branch exists)
gitCheckout(w, b) ==
    IF w.cloned /\ (b \in w.heads \/ b \in remote) /\ ~CheckedOutInWorktree(w, b)
    THEN [ok |-> TRUE, w |-> [w EXCEPT !.mainHead = b, !.heads = w.heads \cup {b}]]
    ELSE [ok |-> FALSE, w |-> w]

\* git checkout -b <b> origin/<b>
gitCheckoutTrack(w, b) ==
    IF w.cloned /\ b \notin w.heads /\ b \in remote
    THEN [ok |-> TRUE, w |-> [w EXCEPT !.mainHead = b, !.heads = w.heads \cup {b}]]
    ELSE [ok |-> FALSE, w |-> w]

\* git checkout -b <b> (from HEAD)
gitCheckoutNew(w, b) ==
    IF w.cloned /\ b \notin w.heads /\ w.mainHead \in w.heads
    THEN [ok |-> TRUE, w |-> [w EXCEPT !.mainHead = b, !.heads = w.heads \cup {b}]]
    ELSE [ok |-> FALSE, w |-> w]

\* the branch a fresh clone checks out
DefaultBranch ==
    IF "dev" \in remote THEN "dev"
    ELSE IF "main" \in remote THEN "main"
    ELSE IF "master" \in remote THEN "master" ELSE "trunk"

\* git clone <authUrl> <repoPath>
gitClone(w) ==
    [w EXCEPT !.cloned = TRUE, !.mainHead = DefaultBranch,
              !.heads = remote \cap {DefaultBranch}]

-----------------------------------------------------------------------------
(* Reading `git worktree list` the way the handlers do *)

\* line.trim().split(/\s+/)[0]
linePath(line) ==
    LET i == IndexOf(line, " ") IN IF i = 0 THEN line ELSE SubSeq(line, 1, i - 1)

\* line.trim().split(/\s+/).length >= 2
lineHasTwoParts(line) == IndexOf(line, " ") # 0

\* line.match(/\[(.*?)\]/)
lineBranch(line) ==
    LET i == IndexOf(line, "[")
        rest == SubSeq(line, i + 1, Len(line))
        j == IndexOf(rest, "]")
    IN  IF i = 0 \/ j = 0 THEN [found |-> FALSE, val |-> NONE]
        ELSE [found |-> TRUE, val |-> SubSeq(rest, 1, j - 1)]

\* line.includes('prunable')
lineIsPrunable(line) == Includes(line, "prunable")

-----------------------------------------------------------------------------
(* Requests *)
Procs == {1, 2}
RepoArgs == {"frontend"}
BaseHints == {NONE, "main", "trunk"}
RemoteConfigs == {{"main"}, {"dev", "main"}, {"trunk"}}

NoWorld == [cloned |-> FALSE, heads |-> {}, mainHead |-> NONE,
            reg |-> [p \in Paths |-> NONE], fs |-> [p \in Paths |-> "absent"]]
NoDesc == [found |-> FALSE, key |-> NONE, name |-> NONE, url |-> NONE]
NoEvent == [kind |-> "none", repo |-> NONE, type |-> NONE, name |-> NONE, base |-> NONE,
            result |-> NONE, branch |-> NONE, path |-> NONE]

IdleCx == [pc |-> "idle", op |-> "none", repo |-> NONE, type |-> NONE,
           name |-> NONE, base |-> NONE, explicit |-> NONE,
           branchExists |-> FALSE, lines |-> <<>>, i |-> 0, resolved |-> NONE,
           result |-> NONE, branch |-> NONE, path |-> NONE,
           \* history, read by the properties only
           gitUsed |-> FALSE, fsChanged |-> FALSE, replaced |-> FALSE,
           added |-> FALSE, rmFailed |-> FALSE, backlog |-> FALSE, probeFault |-> FALSE,
           desc |-> NoDesc,
           pre |-> NoWorld, post |-> NoWorld,
           prev |-> NoEvent]

\* REPO_NAME_MAP[repo], else REPO_MAP[repo], else not found
\* the lookup taken as knowing keys only
resolveWithKeysOnly(map, nameMap, repo) ==
    IF repo \in DOMAIN map
    THEN [found |-> TRUE, key |-> repo, name |-> map[repo].name, url |-> map[repo].url]
    ELSE NoDesc

resolveWith(map, nameMap, repo) ==
    IF repo \in DOMAIN nameMap
    THEN [found |-> TRUE, key |-> nameMap[repo].key, name |-> repo,
          url |-> nameMap[repo].url]
    ELSE IF repo \in DOMAIN map
    THEN [found |-> TRUE, key |-> repo, name |-> map[repo].name, url |-> map[repo].url]
    ELSE NoDesc

resolve(repo) == resolveWith(conf.REPO_MAP, conf.REPO_NAME_MAP, repo)

\* DELETE's own copy of the lookup (lines 1195-1210)
deleteResolve(repo) == resolveWith(conf.REPO_MAP, conf.REPO_NAME_MAP, repo)

configName(c) == resolve(c.repo).name
branchName(c) == branchNameOf(configName(c), c.type, c.name)
worktreePath(c) == worktreePathOf(configName(c), c.type, c.name)

Finish(c, res) == [c EXCEPT !.pc = "done", !.result = res, !.lines = <<>>, !.i = 0]

\* a subprocess or filesystem call may fail for reasons outside the model
\* (lock contention, permissions) while the budget lasts
Cost(f) == IF f THEN 1 ELSE 0
Faults == {f \in BOOLEAN : Cost(f) <= faultsLeft}
FaultPairs == {fg \in BOOLEAN \X BOOLEAN : Cost(fg[1]) + Cost(fg[2]) <= faultsLeft}

Busy(p) == cx[p].pc # "idle"
AllIdle == \A p \in Procs : ~Busy(p)

\* the path is a primary clone: it exists and its .git is a directory
conflictsWithMainRepoNever(w, p) == FALSE

conflictsWithMainRepo(w, p) == existsSync(w, p) /\ gitEntryIsDirectory(w, p)

\* the synchronous head of createWorktreeForRepo, up to its first await
CreateStart(p, repo, id, base) ==
    /\ cx[p].pc = "idle"
    /\ nOps < MaxOps
    /\ LET c == [IdleCx EXCEPT !.op = "create", !.repo = repo, !.type = id.type,
                               !.name = id.name, !.base = base, !.pre = World,
                               !.desc = resolve(repo),
                               !.prev = lastDone]
       IN  cx' = [cx EXCEPT ![p] =
                 IF ~resolve(repo).found THEN Finish(c, "InvalidRepo")
                 ELSE IF conflictsWithMainRepo(World, worktreePath(c))
                 THEN Finish(c, "PathConflict")
                 ELSE IF ~existsSync(World, repoPathOf(configName(c)))
                 THEN IF ~token THEN Finish(c, "NoToken")
                      ELSE [c EXCEPT !.pc = "c_clone"]
                 ELSE [c EXCEPT !.pc = "c_boot"]]
    /\ nOps' = nOps + 1
    /\ UNCHANGED <<worldVars, remote, token, lastDone, nEnv, faultsLeft, parseVars, listVars, confVars, postVars>>

\* git clone; its failure is not caught before the outermost catch
CreateClone(p) ==
    /\ cx[p].pc = "c_clone"
    /\ \E f \in Faults :
          /\ faultsLeft' = faultsLeft - Cost(f)
          /\ IF f \/ World.cloned
             THEN /\ cx' = [cx EXCEPT ![p] = Finish([@ EXCEPT !.gitUsed = TRUE],
                                                    "CloneFailed")]
                  /\ UNCHANGED worldVars
             ELSE /\ cx' = [cx EXCEPT ![p] = [@ EXCEPT !.pc = "c_boot",
                                                       !.gitUsed = TRUE]]
                  /\ SetWorld(gitClone(World))
    /\ UNCHANGED <<remote, token, lastDone, nOps, nEnv, parseVars, listVars, confVars, postVars>>

\* checkout main || checkout -b main origin/main, then checkout -b dev
viaBranch(w, b) ==
    LET r1 == gitCheckout(w, b)
        r2 == IF r1.ok THEN r1 ELSE gitCheckoutTrack(w, b)
        r3 == IF r2.ok THEN gitCheckoutNew(r2.w, "dev") ELSE r2
    IN  [ok |-> r3.ok, w |-> r3.w]

\* git fetch origin, then dev, else dev from origin/dev, else dev from main,
\* else dev from master; every failure is swallowed
ensureDefaultBranch(w) ==
    LET dev == gitCheckout(w, "dev")
        track == gitCheckoutTrack(w, "dev")
        viaMain == viaBranch(w, "main")
        viaMaster == viaBranch(viaMain.w, "master")
    IN  IF dev.ok THEN dev.w
        ELSE IF track.ok THEN track.w
        ELSE IF viaMain.ok THEN viaMain.w
        ELSE viaMaster.w

CreateBootstrap(p) ==
    /\ cx[p].pc \in {"c_boot", "c_showref"}
    /\ \E f \in Faults :
          /\ faultsLeft' = faultsLeft - Cost(f)
          /\ IF cx[p].pc = "c_boot"
             THEN \* lines 175-204; a failing fetch skips the checkouts
                  /\ SetWorld(IF f THEN World ELSE ensureDefaultBranch(World))
                  /\ cx' = [cx EXCEPT ![p] = [@ EXCEPT !.pc = "c_showref",
                                                       !.gitUsed = TRUE]]
             ELSE \* lines 206-215, then the test of line 218
                  /\ UNCHANGED worldVars
                  /\ cx' = [cx EXCEPT ![p] =
                        [@ EXCEPT !.branchExists =
                                      ~f /\ gitShowRefHead(World, branchName(cx[p])),
                                  !.gitUsed = TRUE,
                                  !.pc = IF existsSync(World, worktreePath(cx[p]))
                                         THEN "c_list1" ELSE "c_prune"]]
    /\ UNCHANGED <<remote, token, lastDone, nOps, nEnv, parseVars, listVars, confVars, postVars>>

-----------------------------------------------------------------------------
(* The steps of createWorktreeForRepo after line 217.  A step is one awaited  *)
(* subprocess with the synchronous code that follows it; it yields the       *)
(* request's next context c, the state w it leaves, and whether it ran an    *)
(* rmSync (rm).  f: the subprocess fails; g: the rmSync throws.              *)

Out(c, w) == [c |-> c, w |-> w, rm |-> FALSE]
OutRm(c, w) == [c |-> c, w |-> w, rm |-> TRUE]
Goto(c, pc) == [c EXCEPT !.pc = pc]

\* lines 235-249: the first listed path equal to the target after normalization
registrationAt(lines, target) ==
    LET hits == {k \in DOMAIN lines :
                    /\ lineHasTwoParts(lines[k])
                    /\ normalizePath(linePath(lines[k])) = normalizePath(target)}
    IN  IF hits = {} THEN [isRegistered |-> FALSE, existingBranch |-> NONE]
        ELSE LET k == CHOOSE h \in hits : \A h2 \in hits : h <= h2
             IN  [isRegistered |-> TRUE, existingBranch |-> lineBranch(lines[k]).val]

\* lines 276-296 and 299-319: an unregistered (or unlistable) directory is
\* removed unless it is a primary clone
removeOrphan(c, w, g) ==
    IF existsSync(w, worktreePath(c)) /\ gitEntryIsDirectory(w, worktreePath(c))
    THEN Out(Finish(c, "PathConflict"), w)
    ELSE IF g THEN OutRm(Finish(c, "RemoveFailed"), w)
    ELSE OutRm([c EXCEPT !.pc = "c_prune", !.fsChanged = TRUE],
               rmSync(w, worktreePath(c)))

\* lines 221-320: git worktree list, then the decision on the existing directory
list1Step(c, w, f, g) ==
    LET r == registrationAt(gitWorktreeList(w), worktreePath(c)) IN
    IF f \/ ~w.cloned THEN removeOrphan(c, w, g)
    ELSE IF r.isRegistered
    THEN IF r.existingBranch = branchName(c)
         THEN Out([c EXCEPT !.pc = "c_remove1", !.replaced = TRUE], w)
         ELSE Out(Finish(c, "BranchMismatch"), w)
    ELSE removeOrphan(c, w, g)

\* the replace without its removal
remove1StepSkip(c, w, f, g) == Out(Goto(c, "c_prune"), w)

\* lines 255-267: git worktree remove --force, else rmSync
remove1Step(c, w, f, g) ==
    LET r == gitWorktreeRemove(w, worktreePath(c)) IN
    IF ~f /\ r.ok THEN Out([c EXCEPT !.pc = "c_prune", !.fsChanged = TRUE], r.w)
    ELSE IF g THEN OutRm(Finish(c, "RemoveFailed"), w)
    ELSE OutRm([c EXCEPT !.pc = "c_prune", !.fsChanged = TRUE],
               rmSync(w, worktreePath(c)))

\* lines 335-341: the next prunable line that names the branch or the target
nextPrunable(lines, from, c) ==
    LET hits == {k \in DOMAIN lines :
                    /\ k > from
                    /\ lineIsPrunable(lines[k])
                    /\ lineHasTwoParts(lines[k])
                    /\ \/ Includes(linePath(lines[k]), branchName(c))
                       \/ linePath(lines[k]) = worktreePath(c)}
    IN  IF hits = {} THEN 0 ELSE CHOOSE h \in hits : \A h2 \in hits : h <= h2

pruneAdvance(c, w) ==
    LET k == nextPrunable(c.lines, c.i, c) IN
    IF k = 0 THEN Out([c EXCEPT !.pc = "c_head1", !.lines = <<>>, !.i = 0], w)
    ELSE Out([c EXCEPT !.pc = "c_pruneRm", !.i = k], w)

\* a create without the prune of lines 323-361
pruneStepSkip(c, w, f, g) == Out(Goto(c, "c_head1"), w)

\* lines 323-361
pruneStep(c, w, f, g) ==
    CASE c.pc = "c_prune" ->
            LET r == gitWorktreePrune(w) IN
            IF f \/ ~r.ok THEN Out(Goto(c, "c_head1"), w)
            ELSE Out(Goto(c, "c_list2"), r.w)
      [] c.pc = "c_list2" ->
            IF f \/ ~w.cloned THEN Out(Goto(c, "c_head1"), w)
            ELSE pruneAdvance([c EXCEPT !.lines = gitWorktreeList(w), !.i = 0], w)
      [] c.pc = "c_pruneRm" ->
            LET r == gitWorktreeRemove(w, linePath(c.lines[c.i])) IN
            IF ~f /\ r.ok THEN pruneAdvance([c EXCEPT !.fsChanged = TRUE], r.w)
            ELSE Out(Goto(c, "c_pruneRm2"), w)
      [] c.pc = "c_pruneRm2" ->
            LET r == gitWorktreePrune(w) IN
            pruneAdvance(c, IF f THEN w ELSE r.w)

\* git checkout dev, else main, else master
checkoutFallback(w) ==
    LET dev == gitCheckout(w, "dev")
        main == gitCheckout(w, "main")
        master == gitCheckout(w, "master")
    IN  IF dev.ok THEN dev.w
        ELSE IF main.ok THEN main.w
        ELSE IF master.ok THEN master.w ELSE w

\* lines 536-538, 556, 575-578: where base resolution starts
resolveEntry(c) ==
    IF c.branchExists THEN [c EXCEPT !.pc = "c_add", !.resolved = branchName(c)]
    ELSE IF c.base # NONE THEN [c EXCEPT !.pc = "c_base1", !.resolved = c.base]
    ELSE [c EXCEPT !.pc = "c_det1", !.resolved = "dev"]

\* lines 363-379 and 501-518: leave the target branch in the primary clone
leaveBranchStep(c, w, f, g) ==
    CASE c.pc = "c_head1" ->
            IF ~f /\ w.cloned /\ w.mainHead = branchName(c)
            THEN Out(Goto(c, "c_co1"), w) ELSE Out(Goto(c, "c_list3"), w)
      [] c.pc = "c_co1" ->
            Out(Goto(c, "c_list3"), IF f THEN w ELSE checkoutFallback(w))
      [] c.pc = "c_head2" ->
            IF ~f /\ w.cloned /\ w.mainHead = branchName(c)
            THEN Out(Goto(c, "c_co2"), w) ELSE Out(resolveEntry(c), w)
      [] c.pc = "c_co2" ->
            Out(resolveEntry(c), IF f THEN w ELSE checkoutFallback(w))

\* an eviction loop that finds nothing
nextConflictNone(lines, from, c) == 0

\* lines 393-407: the next line holding the target branch at another path
nextConflict(lines, from, c) ==
    LET hits == {k \in DOMAIN lines :
                    /\ k > from
                    /\ lineHasTwoParts(lines[k])
                    /\ lineBranch(lines[k]).found
                    /\ lineBranch(lines[k]).val = branchName(c)
                    /\ linePath(lines[k]) # repoPathOf(configName(c))
                    /\ StripSlash(linePath(lines[k])) #
                           StripSlash(repoPathOf(configName(c)))
                    /\ normalizePath(linePath(lines[k])) #
                           normalizePath(worktreePath(c))}
    IN  IF hits = {} THEN 0 ELSE CHOOSE h \in hits : \A h2 \in hits : h <= h2

evictAdvance(c, w) ==
    LET k == nextConflict(c.lines, c.i, c) IN
    IF k = 0 THEN Out([c EXCEPT !.pc = "c_head2", !.lines = <<>>, !.i = 0], w)
    ELSE Out([c EXCEPT !.pc = "c_evict", !.i = k], w)

\* lines 457-491: the handler of a failed eviction
evictFailed(c, w, g) ==
    LET existingPath == linePath(c.lines[c.i]) IN
    IF lineIsPrunable(c.lines[c.i]) THEN Out(Goto(c, "c_evictPrune"), w)
    ELSE IF ~existsSync(w, existingPath) THEN evictAdvance(c, w)
    ELSE IF g THEN OutRm(Finish(c, "EvictFailed"), w)
    ELSE LET a == evictAdvance([c EXCEPT !.fsChanged = TRUE], rmSync(w, existingPath))
         IN  OutRm(a.c, a.w)

\* lines 381-496
evictStep(c, w, f, g) ==
    CASE c.pc = "c_list3" ->
            IF f \/ ~w.cloned THEN Out(Goto(c, "c_head2"), w)
            ELSE evictAdvance([c EXCEPT !.lines = gitWorktreeList(w), !.i = 0], w)
      [] c.pc = "c_evict" ->
            LET r == gitWorktreeRemove(w, linePath(c.lines[c.i])) IN
            IF ~f /\ r.ok THEN Out([c EXCEPT !.pc = "c_verify", !.fsChanged = TRUE], r.w)
            ELSE Out(Goto(c, "c_evict2"), w)
      [] c.pc = "c_evict2" ->
            LET r == gitWorktreeRemove(w, linePath(c.lines[c.i])) IN
            IF ~f /\ r.ok THEN Out([c EXCEPT !.pc = "c_verify", !.fsChanged = TRUE], r.w)
            ELSE evictFailed(c, w, g)
      [] c.pc = "c_verify" ->
            LET stillExists ==
                    \E k \in DOMAIN gitWorktreeList(w) :
                        /\ lineHasTwoParts(gitWorktreeList(w)[k])
                        /\ normalizePath(linePath(gitWorktreeList(w)[k])) =
                               normalizePath(linePath(c.lines[c.i]))
            IN  IF f \/ ~w.cloned THEN evictFailed(c, w, g)
                ELSE IF stillExists THEN Out(Goto(c, "c_evictPrune2"), w)
                ELSE evictAdvance(c, w)
      [] c.pc = "c_evictPrune2" ->
            LET w2 == IF f THEN w ELSE gitWorktreePrune(w).w
                existingPath == linePath(c.lines[c.i])
            IN  IF ~existsSync(w2, existingPath) THEN evictAdvance(c, w2)
                ELSE IF g THEN OutRm(Finish(c, "EvictFailed"), w2)
                ELSE LET a == evictAdvance([c EXCEPT !.fsChanged = TRUE],
                                           rmSync(w2, existingPath))
                     IN  OutRm(a.c, a.w)
      [] c.pc = "c_evictPrune" ->
            IF f \/ ~w.cloned THEN Out(Finish(c, "EvictFailed"), w)
            ELSE evictAdvance(c, gitWorktreePrune(w).w)

\* lines 534-578: the base ref of a branch that does not exist yet
resolveBaseStep(c0, w, f, g) ==
    LET c == [c0 EXCEPT !.probeFault = c0.probeFault \/ (f /\ c0.pc # "c_base3")] IN
    CASE c.pc = "c_base1" ->
            IF ~f /\ gitShowRefHead(w, c.base) THEN Out(Goto(c, "c_add"), w)
            ELSE Out(Goto(c, "c_base2"), w)
      [] c.pc = "c_base2" ->
            IF ~f /\ gitShowRefRemote(w, c.base) THEN Out(Goto(c, "c_base3"), w)
            ELSE Out([c EXCEPT !.pc = "c_add", !.resolved = "dev"], w)
      [] c.pc = "c_base3" ->
            Out(Goto(c, "c_add"), IF f THEN w ELSE gitCheckoutTrack(w, c.base).w)
      [] c.pc = "c_det1" ->
            IF ~f /\ gitShowRefHead(w, "dev")
            THEN Out([c EXCEPT !.pc = "c_add", !.resolved = "dev"], w)
            ELSE Out(Goto(c, "c_det2"), w)
      [] c.pc = "c_det2" ->
            IF ~f /\ gitShowRefHead(w, "main")
            THEN Out([c EXCEPT !.pc = "c_add", !.resolved = "main"], w)
            ELSE Out(Goto(c, "c_det3"), w)
      [] c.pc = "c_det3" ->
            IF ~f /\ gitShowRefHead(w, "master")
            THEN Out([c EXCEPT !.pc = "c_add", !.resolved = "master"], w)
            ELSE Out([c EXCEPT !.pc = "c_add", !.resolved = "dev"], w)

\* lines 583-641: git worktree add, then the list of line 599 in the same try
addStep(c, w, f, g) ==
    CASE c.pc = "c_add" ->
            LET r == IF c.branchExists
                     THEN gitWorktreeAddExisting(w, worktreePath(c), branchName(c))
                     ELSE gitWorktreeAddNew(w, worktreePath(c), branchName(c), c.resolved)
            IN  IF f \/ ~r.ok THEN Out(Finish(c, "AddFailed"), w)
                ELSE Out([c EXCEPT !.pc = "c_listAfter", !.added = TRUE,
                                   !.fsChanged = TRUE], r.w)
      [] c.pc = "c_listAfter" ->
            IF f \/ ~w.cloned THEN Out(Finish(c, "AddFailed"), w)
            ELSE Out(Goto(c, "c_verifyHead"), w)

\* lines 620-752: the advisory checks, then the success result; the backlog
\* item of POST follows (lines 1139-1159)
postStep(c, w, f, g) ==
    CASE c.pc = "c_verifyHead" -> Out(Goto(c, "c_listFinal"), w)
      [] c.pc = "c_listFinal" ->
            Out([c EXCEPT !.pc = "c_backlog", !.result = "ok", !.post = w,
                          !.branch = branchName(c), !.path = worktreePath(c)], w)
      [] c.pc = "c_backlog" -> Out(Finish([c EXCEPT !.backlog = TRUE], "ok"), w)

-----------------------------------------------------------------------------
(* DELETE *)

\* worktreePath || path.join(WORKTREE_ROOT, config.name, branchName)
fullWorktreePath(c) == IF c.explicit # NONE THEN c.explicit ELSE worktreePath(c)

\* lines 1217-1231 with the test of the directory left out
deleteNotFoundRepoOnly(w, c) == ~existsSync(w, repoPathOf(configName(c)))

\* lines 1217-1231: the 404 answers
deleteNotFound(w, c) ==
    \/ ~existsSync(w, fullWorktreePath(c))
    \/ ~existsSync(w, repoPathOf(configName(c)))

\* the synchronous head of DELETE, up to its first await
DeleteStart(p, repo, id, explicit) ==
    /\ cx[p].pc = "idle"
    /\ nOps < MaxOps
    /\ LET c == [IdleCx EXCEPT !.op = "delete", !.repo = repo, !.type = id.type,
                               !.name = id.name, !.explicit = explicit,
                               !.pre = World, !.prev = lastDone,
                               !.desc = deleteResolve(repo)]
       IN  cx' = [cx EXCEPT ![p] =
                 IF ~deleteResolve(repo).found THEN Finish(c, "InvalidRepo")
                 ELSE IF deleteNotFound(World, c) THEN Finish(c, "NotFound")
                 ELSE [c EXCEPT !.pc = "d_remove"]]
    /\ nOps' = nOps + 1
    /\ UNCHANGED <<worldVars, remote, token, lastDone, nEnv, faultsLeft, parseVars, listVars, confVars, postVars>>

\* the success answer given although the directory could not be removed
deleteAnswerAlwaysOk(c, w, g) ==
    IF ~existsSync(w, fullWorktreePath(c))
    THEN Out([c EXCEPT !.pc = "d_backlog", !.post = w], w)
    ELSE IF g
    THEN OutRm([c EXCEPT !.pc = "d_backlog", !.rmFailed = TRUE, !.post = w], w)
    ELSE OutRm([c EXCEPT !.pc = "d_backlog", !.fsChanged = TRUE,
                         !.post = rmSync(w, fullWorktreePath(c))],
               rmSync(w, fullWorktreePath(c)))

\* lines 1244-1254: remove the directory if it still exists
deleteAnswer(c, w, g) ==
    IF ~existsSync(w, fullWorktreePath(c))
    THEN Out([c EXCEPT !.pc = "d_backlog", !.post = w], w)
    ELSE IF g
    THEN OutRm(Finish([c EXCEPT !.rmFailed = TRUE, !.post = w], "RemoveFailed"), w)
    ELSE OutRm([c EXCEPT !.pc = "d_backlog", !.fsChanged = TRUE,
                         !.post = rmSync(w, fullWorktreePath(c))],
               rmSync(w, fullWorktreePath(c)))

\* lines 1233-1286
deleteStep(c, w, f, g) ==
    CASE c.pc = "d_remove" ->
            LET r == gitWorktreeRemove(w, fullWorktreePath(c)) IN
            IF ~f /\ r.ok THEN deleteAnswer([c EXCEPT !.fsChanged = TRUE], r.w, g)
            ELSE deleteAnswer(c, w, g)
      [] c.pc = "d_backlog" -> Out(Finish([c EXCEPT !.backlog = TRUE], "ok"), w)

-----------------------------------------------------------------------------
(* The error text of a failure result *)

\* the credential getGitHubToken() returns
TokenValue == "ghp_0a1b"

\* config.url.replace('https://', `https://${token}@`)
authUrl(url) == ReplaceFirst(url, "https://", "https://" \o TokenValue \o "@")

\* error.message of a rejected execAsync(cmd): child_process.exec puts the
\* command line first and the subprocess's stderr after it
execFailureMessage(cmd) == "Command failed: " \o cmd

\* the `error` of the result createWorktreeForRepo or DELETE returns
errorOf(c) ==
    CASE c.result = "InvalidRepo" -> "Invalid repository: " \o c.repo
      [] c.result = "PathConflict" ->
            "Path " \o worktreePath(c) \o
            " conflicts with an existing repository directory."
      [] c.result = "NoToken" -> "GITHUB_TOKEN not found."
      [] c.result = "CloneFailed" ->
            execFailureMessage("git clone " \o authUrl(c.desc.url) \o " " \o
                               repoPathOf(c.desc.name))
      [] c.result = "BranchMismatch" ->
            "A worktree already exists at " \o worktreePath(c) \o
            " with a different branch."
      [] c.result = "RemoveFailed" ->
            IF c.op = "delete" THEN "Failed to remove directory: EACCES"
            ELSE "Failed to remove existing worktree: EACCES"
      [] c.result = "EvictFailed" ->
            "Failed to remove conflicting worktree. Please remove it manually."
      [] c.result = "AddFailed" ->
            "Failed to create worktree: " \o
            execFailureMessage("git worktree add " \o worktreePath(c))
      [] c.result = "NotFound" -> "Working tree not found at " \o fullWorktreePath(c)
      [] OTHER -> NONE

-----------------------------------------------------------------------------
(* Actions *)

RunStep(p, r, fg) ==
    /\ fg[2] => r.rm
    /\ cx' = [cx EXCEPT ![p] = r.c]
    /\ SetWorld(r.w)
    /\ faultsLeft' = faultsLeft - Cost(fg[1]) - Cost(fg[2])
    /\ UNCHANGED <<remote, token, lastDone, nOps, nEnv, parseVars, listVars, confVars, postVars>>

UsesGit(c) == [c EXCEPT !.gitUsed = TRUE]

CreateCheckExisting(p) ==
    /\ cx[p].pc \in {"c_list1", "c_remove1"}
    /\ \E fg \in FaultPairs :
          RunStep(p, IF cx[p].pc = "c_list1"
                     THEN list1Step(UsesGit(cx[p]), World, fg[1], fg[2])
                     ELSE remove1Step(UsesGit(cx[p]), World, fg[1], fg[2]), fg)

CreatePrune(p) ==
    /\ cx[p].pc \in {"c_prune", "c_list2", "c_pruneRm", "c_pruneRm2"}
    /\ \E fg \in FaultPairs : RunStep(p, pruneStep(UsesGit(cx[p]), World, fg[1], fg[2]), fg)

CreateLeaveBranch(p) ==
    /\ cx[p].pc \in {"c_head1", "c_co1", "c_head2", "c_co2"}
    /\ \E fg \in FaultPairs :
          RunStep(p, leaveBranchStep(UsesGit(cx[p]), World, fg[1], fg[2]), fg)

CreateEvict(p) ==
    /\ cx[p].pc \in {"c_list3", "c_evict", "c_evict2", "c_verify", "c_evictPrune2",
                     "c_evictPrune"}
    /\ \E fg \in FaultPairs : RunStep(p, evictStep(UsesGit(cx[p]), World, fg[1], fg[2]), fg)

CreateResolveBase(p) ==
    /\ cx[p].pc \in {"c_base1", "c_base2", "c_base3", "c_det1", "c_det2", "c_det3"}
    /\ \E fg \in FaultPairs :
          RunStep(p, resolveBaseStep(UsesGit(cx[p]), World, fg[1], fg[2]), fg)

CreateAdd(p) ==
    /\ cx[p].pc \in {"c_add", "c_listAfter"}
    /\ \E fg \in FaultPairs : RunStep(p, addStep(UsesGit(cx[p]), World, fg[1], fg[2]), fg)

CreateFinish(p) ==
    /\ cx[p].pc \in {"c_verifyHead", "c_listFinal", "c_backlog"}
    /\ \E fg \in FaultPairs : RunStep(p, postStep(cx[p], World, fg[1], fg[2]), fg)

DeleteRun(p) ==
    /\ cx[p].pc \in {"d_remove", "d_backlog"}
    /\ \E fg \in FaultPairs :
          RunStep(p, deleteStep(IF cx[p].pc = "d_remove" THEN UsesGit(cx[p]) ELSE cx[p],
                                World, fg[1], fg[2]), fg)

\* the response is sent; the request's locals are gone
Respond(p) ==
    /\ cx[p].pc = "done"
    /\ lastDone' = [kind |-> cx[p].op, repo |-> cx[p].repo, type |-> cx[p].type, name |-> cx[p].name,
                    base |-> cx[p].base, result |-> cx[p].result,
                    branch |-> cx[p].branch, path |-> cx[p].path]
    /\ cx' = [cx EXCEPT ![p] = IdleCx]
    /\ UNCHANGED <<worldVars, remote, token, nOps, nEnv, faultsLeft, parseVars, listVars, confVars, postVars>>

\* the awaited project-card call (findOrCreateWorkspaceProject and what
\* follows it) does not settle: the handler stays at its await
BacklogStalls(p) ==
    /\ cx[p].pc \in {"c_backlog", "d_backlog"}
    /\ cx' = [cx EXCEPT ![p] = [@ EXCEPT !.pc = "awaiting", !.backlog = TRUE]]
    /\ UNCHANGED <<worldVars, remote, token, lastDone, nOps, nEnv, faultsLeft, parseVars, listVars, confVars, postVars>>

-----------------------------------------------------------------------------
(* What happens to the directories and the clone outside the handlers *)

OutsideEvent == [NoEvent EXCEPT !.kind = "outside"]

Outside(w) ==
    /\ AllIdle
    /\ nEnv < MaxEnv
    /\ nEnv' = nEnv + 1
    /\ SetWorld(w)
    /\ lastDone' = OutsideEvent
    /\ UNCHANGED <<remote, token, cx, nOps, faultsLeft, parseVars, listVars, confVars, postVars>>

\* someone deletes a worktree directory by hand
OutsideRemoveDir(p) ==
    /\ fs[p] \in {"wt", "dir"}
    /\ Outside([World EXCEPT !.fs[p] = "absent"])

\* someone leaves a plain directory at a worktree path
OutsideMakeDir(p) ==
    /\ fs[p] = "absent"
    /\ Outside([World EXCEPT !.fs[p] = "dir"])

\* someone clones a repository into a worktree path
OutsideCloneInto(p) ==
    /\ fs[p] = "absent"
    /\ Outside([World EXCEPT !.fs[p] = "repo"])

\* someone runs `git checkout -B <b>` inside a worktree
OutsideSwitchBranch(p, b) ==
    /\ cloned /\ fs[p] = "wt" /\ reg[p] # NONE
    /\ ~CheckedOut(World, b)
    /\ Outside([World EXCEPT !.reg[p] = b, !.heads = heads \cup {b}])

\* someone checks out a branch in the primary clone
OutsideMainCheckout(b) ==
    /\ cloned /\ b \in heads
    /\ ~CheckedOut(World, b)
    /\ Outside([World EXCEPT !.mainHead = b])

OutsideBranches == IdentBranches \cup {"scratch"}

-----------------------------------------------------------------------------
(* Discovery (GET) and the pointer files.                                   *)
(* A worktree directory holds a .git pointer file ("gitdir: <admin dir>")   *)
(* and the registry holds, per registration, a gitdir file naming the       *)
(* worktree's path.  Either may be written in container form (below         *)
(* ROOT_DIR) or in host form (below the host root).                         *)

\* the values HOST_REPO_ROOT takes: unset (same as ROOT_DIR) or a host path
HostRoots == {ROOT_DIR, HOST_ROOT_DIR}

\* s.replace(new RegExp(escape(from), 'g'), to)
RECURSIVE ReplaceAll(_, _, _)
ReplaceAll(s, from, to) ==
    LET i == IndexOf(s, from) IN
    IF i = 0 \/ from = "" THEN s
    ELSE SubSeq(s, 1, i - 1) \o to \o
         ReplaceAll(SubSeq(s, i + Len(from), Len(s)), from, to)

\* GET's normalizePath closure under host root h
normalizePathFor(h, p) ==
    LET stripped == StripSlash(p) IN
    IF Includes(stripped, h) /\ ROOT_DIR # h
    THEN ReplaceFirst(stripped, h, ROOT_DIR)
    ELSE stripped

\* GET's containerPath under host root h
containerPathFor(h, p) ==
    IF Includes(p, h) /\ ROOT_DIR # h THEN ReplaceFirst(p, h, ROOT_DIR) ELSE p

\* what git writes into <worktree>/.git for the worktree at p, seen from root
gitdirPointer(root, p) ==
    "gitdir: " \o Join(root, Repo) \o "/.git/worktrees/" \o Basename(p)

\* the path of the worktree at p as a tool running under root writes it
pathUnder(root, p) == ReplaceFirst(p, ROOT_DIR, root)

\* git inside the worktree at p finds its repository: the pointer file names
\* an administrative directory that exists in the process's view
pointerResolves(p) == ptr[p] = gitdirPointer(ROOT_DIR, p) /\ reg[p] # NONE

\* git rev-parse --abbrev-ref HEAD with cwd = p
gitRevParseHead(p) ==
    IF p \in Paths /\ fs[p] = "wt" /\ pointerResolves(p)
    THEN [ok |-> TRUE, branch |-> reg[p]]
    ELSE [ok |-> FALSE, branch |-> NONE]

\* git marks a registration prunable when its gitdir file names a path
\* that has no .git in the process's view
prunableHere(p) ==
    reg[p] # NONE /\ (gdir[p] # p \/ fs[p] \in {"absent", "dir"})

\* stdout of `git worktree list`: the path of each line is the gitdir file's
gitWorktreeListHere ==
    LET registered == SelectSeq(PathSeq, LAMBDA p : reg[p] # NONE)
    IN  <<listLine(repoPath, mainHead, FALSE)>> \o
        [i \in DOMAIN registered |->
            listLine(gdir[registered[i]], reg[registered[i]],
                     prunableHere(registered[i]))]

\* readdirSync(<WORKTREE_ROOT>/<repo>): the directories present
readdirWorktrees == SelectSeq(PathSeq, LAMBDA p : fs[p] # "absent")

IdleList == [pc |-> "idle", lines |-> <<>>, entries |-> <<>>, i |-> 0,
             set |-> {}, out |-> <<>>,
             \* history, read by the properties only
             pre |-> [ptr |-> [p \in Paths |-> NONE], gdir |-> [p \in Paths |-> NONE],
                      reg |-> [p \in Paths |-> NONE], fs |-> [p \in Paths |-> "absent"],
                      heads |-> {}, mainHead |-> NONE],
             wrote |-> {}, gitAtHostForm |-> FALSE, made |-> NoEvent]

\* the git-registry pass taken as reporting the repository's name as its key
registryKeyAsName == Repo

\* the key the git-registry pass reports: the entry of REPO_MAP it iterates
registryKey == CHOOSE k \in DOMAIN conf.REPO_MAP : conf.REPO_MAP[k].name = Repo

\* the key the filesystem pass reports: matchedRepo.key
matchedKey == conf.REPO_NAME_MAP[Repo].key

\* the duplicate test of the merge taken as never matching
alreadyListedNever(set, normalized) == FALSE

\* worktreeSet.has(normalizedPath)
alreadyListed(set, normalized) == normalized \in set

\* one line of the git-registry pass
registryLine(l, line) ==
    LET listedPath == linePath(line)
        normalizedPath == normalizePathFor(hostRoot, listedPath)
        containerPath == containerPathFor(hostRoot, listedPath)
        branchMatch == lineBranch(line)
        parsed == parseRegistryBranch(Repo, branchMatch.val)
        skip == \/ ~lineHasTwoParts(line)
                \/ listedPath = repoPath
                \/ StripSlash(listedPath) = StripSlash(repoPath)
                \/ lineIsPrunable(line)
                \/ alreadyListed(l.set, normalizedPath)
                \/ containerPath \notin Paths
                \/ fs[containerPath] # "wt"
                \/ ~branchMatch.found
                \/ ~parsed.ok
        actual == gitRevParseHead(containerPath)
    IN  IF skip THEN [l EXCEPT !.i = l.i + 1]
        ELSE [l EXCEPT !.i = l.i + 1,
                       !.set = l.set \cup {normalizedPath},
                       !.out = Append(l.out,
                                   [pass |-> "registry", repo |-> registryKey,
                                    type |-> parsed.type,
                                    name |-> parsed.name,
                                    branch |-> IF actual.ok THEN actual.branch
                                               ELSE branchMatch.val,
                                    path |-> containerPath]),
                       !.gitAtHostForm =
                           l.gitAtHostForm \/ ptr[containerPath] # gitdirPointer(ROOT_DIR, containerPath)]

\* the pointer file of one entry of the filesystem pass: what is written
\* before rev-parse runs, and what is in place afterwards
pointerDuring(content) ==
    IF ROOT_DIR = hostRoot THEN content
    ELSE IF Includes(content, hostRoot) THEN ReplaceAll(content, hostRoot, ROOT_DIR)
    ELSE IF Includes(content, ROOT_DIR) THEN ReplaceAll(content, ROOT_DIR, hostRoot)
    ELSE content

pointerAfter(content) ==
    IF ROOT_DIR = hostRoot THEN content
    ELSE IF Includes(content, hostRoot) THEN content
    ELSE pointerDuring(content)

\* one directory entry of the filesystem pass; yields the request's locals
\* and the pointer file left at the entry
fsEntry(l, p) ==
    LET parsed == parseFsDirName(Repo, Basename(p))
        skip == ~parsed.ok \/ fs[p] # "wt" \/ ~cloned
        during == pointerDuring(ptr[p])
        actualOk == during = gitdirPointer(ROOT_DIR, p) /\ reg[p] # NONE
        normalizedWorktreePath == normalizePathFor(hostRoot, p)
        record == [pass |-> "fs", repo |-> matchedKey,
                   type |-> parsed.type, name |-> parsed.name,
                   branch |-> IF actualOk THEN reg[p] ELSE Basename(p),
                   path |-> p]
    IN  IF skip THEN [l |-> [l EXCEPT !.i = l.i + 1], ptr |-> ptr[p]]
        ELSE [l |-> [l EXCEPT
                        !.i = l.i + 1,
                        !.set = l.set \cup {normalizedWorktreePath},
                        !.out = IF alreadyListed(l.set, normalizedWorktreePath)
                                THEN l.out ELSE Append(l.out, record),
                        !.wrote = IF during # ptr[p] THEN l.wrote \cup {p} ELSE l.wrote,
                        !.gitAtHostForm =
                            l.gitAtHostForm \/ during # gitdirPointer(ROOT_DIR, p)],
              ptr |-> pointerAfter(ptr[p])]

ListIdle == ls.pc \in {"idle", "done"}

\* GET up to the output of `git worktree list` (or, without a clone, up to
\* the directory scan)
ListStart ==
    /\ AllIdle /\ ListIdle
    /\ nLists < MaxLists
    /\ nLists' = nLists + 1
    /\ ls' = [IdleList EXCEPT
                !.pc = IF cloned THEN "l_registry" ELSE "l_fs",
                !.lines = IF cloned THEN gitWorktreeListHere ELSE <<>>,
                !.entries = IF cloned THEN <<>> ELSE readdirWorktrees,
                !.i = 1,
                !.made = lastDone,
                !.pre = [ptr |-> ptr, gdir |-> gdir, reg |-> reg, fs |-> fs,
                         heads |-> heads, mainHead |-> mainHead]]
    /\ UNCHANGED <<worldVars, remote, token, cx, lastDone, nOps, nEnv, faultsLeft,
                   parseVars, hostRoot, ptr, gdir, confVars, postVars>>

\* the git-registry pass, one line at a time; after the last line the
\* directory scan begins
ListRegistry ==
    /\ ls.pc = "l_registry"
    /\ ls' = IF ls.i > Len(ls.lines)
             THEN [ls EXCEPT !.pc = "l_fs", !.i = 1, !.entries = readdirWorktrees]
             ELSE registryLine(ls, ls.lines[ls.i])
    /\ UNCHANGED <<worldVars, remote, token, cx, lastDone, nOps, nEnv, faultsLeft,
                   parseVars, hostRoot, ptr, gdir, nLists, confVars, postVars>>

\* the filesystem pass, one directory at a time
ListFs ==
    /\ ls.pc = "l_fs" /\ ls.i <= Len(ls.entries)
    /\ LET r == fsEntry(ls, ls.entries[ls.i]) IN
          /\ ls' = r.l
          /\ ptr' = [ptr EXCEPT ![ls.entries[ls.i]] = r.ptr]
    /\ UNCHANGED <<worldVars, remote, token, cx, lastDone, nOps, nEnv, faultsLeft,
                   parseVars, hostRoot, gdir, nLists, confVars, postVars>>

\* return NextResponse.json({ worktrees })
ListReturn ==
    /\ ls.pc = "l_fs" /\ ls.i > Len(ls.entries)
    /\ ls' = [ls EXCEPT !.pc = "done"]
    /\ lastDone' = [NoEvent EXCEPT !.kind = "list"]
    /\ UNCHANGED <<worldVars, remote, token, cx, nOps, nEnv, faultsLeft,
                   parseVars, hostRoot, ptr, gdir, nLists, confVars, postVars>>

\* create's fix of the new pointer file
fixPointer(content) ==
    IF Includes(content, hostRoot) /\ ROOT_DIR # hostRoot
    THEN ReplaceFirst(content, hostRoot, ROOT_DIR) ELSE content

\* create's fix of the gitdir file of its own registration
fixGitdir(w, content) ==
    IF Includes(content, hostRoot) /\ ROOT_DIR # hostRoot
       /\ existsSync(w, ReplaceFirst(content, hostRoot, ROOT_DIR))
    THEN ReplaceFirst(content, hostRoot, ROOT_DIR) ELSE content

\* the (type, name) whose derived path is p
identAt(p) == IdentSeq[CHOOSE i \in DOMAIN PathSeq : PathSeq[i] = p]

\* create for the identity of path p, as far as the pointer files go: prune,
\* `git worktree add -b`, then the two fixes
CreatePointers(p) ==
    /\ AllIdle /\ ListIdle
    /\ nOps < MaxListOps
    /\ cloned /\ fs[p] = "absent"
    /\ Basename(p) \notin heads \/ ~CheckedOut([World EXCEPT !.reg[p] = NONE], Basename(p))
    /\ LET pruned == [q \in Paths |-> IF prunableHere(q) THEN NONE ELSE reg[q]]
           w == [World EXCEPT !.reg = [pruned EXCEPT ![p] = Basename(p)],
                              !.fs[p] = "wt",
                              !.heads = heads \cup {Basename(p)}]
       IN  /\ SetWorld(w)
           /\ ptr' = [ptr EXCEPT ![p] = fixPointer(gitdirPointer(ROOT_DIR, p))]
           /\ gdir' = [q \in Paths |->
                          IF q = p THEN fixGitdir(w, p)
                          ELSE IF pruned[q] = NONE THEN NONE ELSE gdir[q]]
    /\ nOps' = nOps + 1
    /\ lastDone' = [NoEvent EXCEPT !.kind = "create", !.result = "ok", !.path = p,
                                   !.branch = Basename(p),
                                   !.repo = "frontend", !.type = identAt(p).type,
                                   !.name = identAt(p).name]
    /\ UNCHANGED <<remote, token, cx, nEnv, faultsLeft, parseVars, hostRoot, ls, nLists, confVars, postVars>>

\* someone runs `git worktree repair` for the worktree from the host
HostRepair(p) ==
    /\ AllIdle /\ ListIdle
    /\ nEnv < MaxEnv
    /\ hostRoot # ROOT_DIR
    /\ cloned /\ fs[p] = "wt" /\ reg[p] # NONE
    /\ ptr' = [ptr EXCEPT ![p] = gitdirPointer(hostRoot, p)]
    /\ gdir' = [gdir EXCEPT ![p] = pathUnder(hostRoot, p)]
    /\ nEnv' = nEnv + 1
    /\ lastDone' = OutsideEvent
    /\ UNCHANGED <<worldVars, remote, token, cx, nOps, faultsLeft, parseVars,
                   hostRoot, ls, nLists, confVars, postVars>>

InitNoList ==
    /\ hostRoot = HOST_ROOT_DIR
    /\ ptr = [p \in Paths |-> NONE]
    /\ gdir = [p \in Paths |-> NONE]
    /\ ls = IdleList
    /\ nLists = 0

InitDefaultEnv == conf = loadConf(DefaultEnv)


-----------------------------------------------------------------------------
(* POST: one request over a list of repositories.  Each entry is handed to  *)
(* createWorktreeForRepo, whose git and filesystem work stays below the     *)
(* entry's own clone and its own <WORKTREE_ROOT>/<name>/ and which always   *)
(* returns a result (its outermost catch); here it is one step that either  *)
(* succeeds, leaving the worktree, or fails, leaving or removing what was   *)
(* at its path.                                                             *)

PostRepoArgs == {"frontend", "sideline-frontend", "viewer", "backend", "nope"}
PostTypes == {"feat", "task"}
PostNames == {"a", "a/b", ""}

\* the request bodies: lists of up to MaxRepos identifiers naming no
\* repository twice
SeqsUpTo(S, n) == UNION {[1..k -> S] : k \in 0..n}
PostLists ==
    {s \in SeqsUpTo(PostRepoArgs, MaxRepos) :
        \A i, j \in DOMAIN s :
            i # j => /\ s[i] # s[j]
                     /\ resolveWith(REPO_MAP, REPO_NAME_MAP, s[i]).found
                        /\ resolveWith(REPO_MAP, REPO_NAME_MAP, s[j]).found
                        => resolveWith(REPO_MAP, REPO_NAME_MAP, s[i]).name #
                               resolveWith(REPO_MAP, REPO_NAME_MAP, s[j]).name}

IdlePost == [pc |-> "idle", repos |-> <<>>, type |-> NONE, name |-> NONE, i |-> 0,
             results |-> <<>>, errors |-> <<>>, status |-> 0,
             \* history, read by the properties only
             attempts |-> <<>>, outcomes |-> <<>>, pre |-> {}]

\* lines 1080-1103: the 400 answers
postInvalid(repos, type, name) ==
    \/ Len(repos) = 0 \/ type = "" \/ name = ""
    \/ type \notin VALID_TYPES
    \/ \E i \in DOMAIN repos : ~resolve(repos[i]).found

PostStart(repos, type, name) ==
    /\ rq.pc \in {"idle", "done"}
    /\ nPosts < MaxPosts
    /\ nPosts' = nPosts + 1
    /\ rq' = IF postInvalid(repos, type, name)
             THEN [IdlePost EXCEPT !.pc = "done", !.repos = repos, !.type = type,
                                   !.name = name, !.status = 400, !.pre = made]
             ELSE [IdlePost EXCEPT !.pc = "loop", !.repos = repos, !.type = type,
                                   !.name = name, !.i = 1, !.pre = made]
    /\ UNCHANGED <<made, worldVars, remote, token, cx, lastDone, nOps, nEnv, faultsLeft,
                   parseVars, listVars, confVars>>

\* the for loop goes on to the next entry whatever the result
continueAfterAbort(r, ok) == IF ok THEN r.i + 1 ELSE Len(r.repos) + 1

continueAfter(r, ok) == r.i + 1

\* the worktree record createWorktreeForRepo returns for an entry
worktreeOf(repo, type, name) ==
    [repo |-> resolve(repo).key, repoName |-> resolve(repo).name,
     type |-> type, name |-> name,
     branch |-> branchNameOf(resolve(repo).name, type, name),
     path |-> worktreePathOf(resolve(repo).name, type, name)]

\* one iteration: await createWorktreeForRepo(...), then push to results or
\* to errors
PostAttempt(ok, kept) ==
    /\ rq.pc = "loop" /\ rq.i <= Len(rq.repos)
    /\ LET repo == rq.repos[rq.i]
           wt == worktreeOf(repo, rq.type, rq.name)
       IN  /\ made' = IF ok THEN made \cup {wt.path}
                      ELSE IF kept THEN made ELSE made \ {wt.path}
           /\ rq' = [rq EXCEPT
                       !.i = continueAfter(rq, ok),
                       !.results = IF ok THEN Append(rq.results, wt) ELSE rq.results,
                       !.errors = IF ok THEN rq.errors
                                  ELSE Append(rq.errors, [repo |-> repo]),
                       !.attempts = Append(rq.attempts, repo),
                       !.outcomes = Append(rq.outcomes, ok)]
    /\ UNCHANGED <<nPosts, worldVars, remote, token, cx, lastDone, nOps, nEnv, faultsLeft,
                   parseVars, listVars, confVars>>

\* lines 1126-1166: 500 when nothing succeeded, else success with the
\* worktrees and the errors
PostRespond ==
    /\ rq.pc = "loop" /\ rq.i > Len(rq.repos)
    /\ rq' = [rq EXCEPT !.pc = "done",
                        !.status = IF Len(rq.results) = 0 THEN 500 ELSE 200]
    /\ UNCHANGED <<made, nPosts, worldVars, remote, token, cx, lastDone, nOps, nEnv, faultsLeft,
                   parseVars, listVars, confVars>>

InitNoPost == rq = IdlePost /\ made = {} /\ nPosts = 0

-----------------------------------------------------------------------------
(* Specifications *)

InitRepo ==
    /\ cloned = FALSE
    /\ heads = {}
    /\ mainHead = NONE
    /\ reg = [p \in Paths |-> NONE]
    /\ fs = [p \in Paths |-> "absent"]
    /\ cx = [p \in Procs |-> IdleCx]
    /\ lastDone = NoEvent
    /\ nOps = 0
    /\ nEnv = 0
    /\ InitNoList
    /\ InitDefaultEnv
    /\ InitNoPost

NoParse == [repo |-> NONE, type |-> NONE, name |-> NONE]
NoNorm == [root |-> NONE, host |-> NONE, path |-> NONE]
InitNoNorm == normIn = NoNorm /\ normOut = <<>>
InitNoParse == parseIn = NoParse /\ parseOut = <<>> /\ InitNoNorm

InitWorld == InitRepo /\ remote \in RemoteConfigs /\ token \in BOOLEAN

Init == InitWorld /\ InitNoParse /\ faultsLeft = 0

Start(p) ==
    \/ \E repo \in RepoArgs, id \in Idents, base \in BaseHints :
          CreateStart(p, repo, id, base)
    \/ \E repo \in RepoArgs, id \in Idents, explicit \in {NONE} \cup Paths :
          DeleteStart(p, repo, id, explicit)

Step(p) ==
    \/ CreateClone(p)
    \/ CreateBootstrap(p)
    \/ CreateCheckExisting(p)
    \/ CreatePrune(p)
    \/ CreateLeaveBranch(p)
    \/ CreateEvict(p)
    \/ CreateResolveBase(p)
    \/ CreateAdd(p)
    \/ CreateFinish(p)
    \/ DeleteRun(p)
    \/ Respond(p)

OutsideNext ==
    \/ \E p \in Paths : OutsideRemoveDir(p)
    \/ \E p \in Paths : OutsideMakeDir(p)
    \/ \E p \in Paths : OutsideCloneInto(p)
    \/ \E p \in Paths, b \in OutsideBranches : OutsideSwitchBranch(p, b)
    \/ \E b \in IdentBranches : OutsideMainCheckout(b)

\* one request at a time
Next ==
    \/ Start(1)
    \/ Step(1)
    \/ OutsideNext

Spec == Init /\ [][Next]_vars

\* one request at a time; subprocesses and rmSync may fail spuriously
InitFault == InitWorld /\ InitNoParse /\ faultsLeft = MaxFaults
SpecFault == InitFault /\ [][Next]_vars

\* requests overlap: a second handler runs while the first awaits a subprocess
InitConc ==
    /\ InitRepo /\ remote = {"main"} /\ token = TRUE
    /\ InitNoParse /\ faultsLeft = 0

NextConc == \E p \in Procs : (nOps < MaxConcOps /\ Start(p)) \/ Step(p)

SpecConc == InitConc /\ [][NextConc]_vars

\* the naming convention alone: derive, then parse back with both passes

InitParse ==
    /\ InitRepo /\ remote = {"main"} /\ token = TRUE /\ faultsLeft = 0
    /\ parseIn \in [repo : ParseRepoNames, type : VALID_TYPES, name : ValidNames]
    /\ parseOut = <<>>
    /\ InitNoNorm

DiscoverParse ==
    /\ parseOut = <<>>
    /\ parseOut' =
          << parseRegistryBranch(parseIn.repo,
                 branchNameOf(parseIn.repo, parseIn.type, parseIn.name)),
             parseFsDirName(parseIn.repo,
                 Basename(worktreePathOf(parseIn.repo, parseIn.type, parseIn.name))) >>
    /\ UNCHANGED <<worldVars, remote, token, cx, lastDone, nOps, nEnv, faultsLeft,
                   parseIn, normIn, normOut, listVars, confVars, postVars>>

NextParse == DiscoverParse

SpecParse == InitParse /\ [][NextParse]_vars

\* path normalization alone: each pair of roots, and under each the paths git
\* and the handlers hand to normalizePath
NormRoots == {"/repos", "/host", "/repos/data", "/srv/repos"}

\* worktree paths below a root: plain, with a trailing slash, and with the
\* other root's text further down the path
NormPaths(root, host) ==
    {root \o "/Tree/sideline-frontend/sideline-frontend-feat-a",
     root \o "/Tree/sideline-frontend/sideline-frontend-feat-a/",
     root \o "/Tree/sideline-frontend/sideline-frontend-feat-a" \o host,
     host \o "/Tree/sideline-frontend/sideline-frontend-feat-a",
     host \o "/Tree/sideline-frontend/sideline-frontend-feat-a/",
     host \o "/sideline-frontend"}

InitNorm ==
    /\ InitRepo /\ remote = {"main"} /\ token = TRUE /\ faultsLeft = 0
    /\ parseIn = NoParse /\ parseOut = <<>>
    /\ \E r \in NormRoots, h \in NormRoots :
           \E p \in NormPaths(r, h) : normIn = [root |-> r, host |-> h, path |-> p]
    /\ normOut = <<>>

Normalize ==
    /\ normOut = <<>>
    /\ LET once == normalizePathUnder(normIn.root, normIn.host, normIn.path)
       IN  normOut' = <<once, normalizePathUnder(normIn.root, normIn.host, once)>>
    /\ UNCHANGED <<worldVars, remote, token, cx, lastDone, nOps, nEnv, faultsLeft,
                   parseIn, parseOut, normIn, listVars, confVars, postVars>>

NextNorm == Normalize

SpecNorm == InitNorm /\ [][NextNorm]_vars

\* discovery and the pointer files
InitList ==
    /\ cloned = TRUE /\ heads = {"dev"} /\ mainHead = "dev"
    /\ reg = [p \in Paths |-> NONE]
    /\ fs = [p \in Paths |-> "absent"]
    /\ cx = [p \in Procs |-> IdleCx]
    /\ lastDone = NoEvent /\ nOps = 0 /\ nEnv = 0
    /\ remote = {"dev", "main"} /\ token = TRUE
    /\ InitNoParse /\ faultsLeft = 0
    /\ hostRoot \in HostRoots
    /\ ptr = [p \in Paths |-> NONE]
    /\ gdir = [p \in Paths |-> NONE]
    /\ ls = IdleList
    /\ nLists = 0
    /\ InitDefaultEnv
    /\ InitNoPost

NextList ==
    \/ ListStart
    \/ ListRegistry
    \/ ListFs
    \/ ListReturn
    \/ \E p \in Paths : CreatePointers(p)
    \/ \E p \in Paths : HostRepair(p)
    \/ (ListIdle /\ OutsideNext)

\* discovery over the worktrees creates and outside tools leave behind
SpecList == InitList /\ [][NextList]_vars

\* POST requests over several repositories
InitPost ==
    /\ InitRepo /\ remote = {"main"} /\ token = TRUE
    /\ InitNoParse /\ faultsLeft = 0

NextPost ==
    \/ /\ rq.pc \in {"idle", "done"} /\ nPosts < MaxPosts
       /\ \E repos \in PostLists, type \in PostTypes, name \in PostNames :
             PostStart(repos, type, name)
    \/ \E ok \in BOOLEAN, kept \in BOOLEAN : PostAttempt(ok, kept)
    \/ PostRespond

SpecPost == InitPost /\ [][NextPost]_vars

\* requests that name the repository by key, by name or by neither, under
\* each environment; only identifiers that resolve to the repository of the
\* model, or to none, are sent
ResolveArgs == {"frontend", "sideline-frontend", "viewer", "nope"}
Addressed(repo) == resolve(repo).found => resolve(repo).name = Repo

InitResolve ==
    /\ cloned = FALSE /\ heads = {} /\ mainHead = NONE
    /\ reg = [p \in Paths |-> NONE]
    /\ fs = [p \in Paths |-> "absent"]
    /\ cx = [p \in Procs |-> IdleCx]
    /\ lastDone = NoEvent /\ nOps = 0 /\ nEnv = 0
    /\ remote = {"main"} /\ token = TRUE
    /\ InitNoParse /\ faultsLeft = 0
    /\ InitNoList /\ InitNoPost
    /\ conf \in {loadConf(e) : e \in Envs}

StartResolve(p) ==
    /\ nOps < MaxResolveOps
    /\ \/ \E repo \in ResolveArgs, id \in Idents, base \in BaseHints :
             Addressed(repo) /\ CreateStart(p, repo, id, base)
       \/ \E repo \in ResolveArgs, id \in Idents, explicit \in {NONE} \cup Paths :
             Addressed(repo) /\ DeleteStart(p, repo, id, explicit)

NextResolve ==
    \/ StartResolve(1)
    \/ Step(1)

SpecResolve == InitResolve /\ [][NextResolve]_vars

\* one request at a time with the project-card call failing or not settling
InitBacklog ==
    /\ InitRepo /\ remote = {"main"} /\ token = TRUE
    /\ InitNoParse /\ faultsLeft = MaxFaults

NextBacklog ==
    \/ Start(1)
    \/ Step(1)
    \/ BacklogStalls(1)

SpecBacklog == InitBacklog /\ [][NextBacklog]_vars

-----------------------------------------------------------------------------
(* Properties *)

\* the expected derivation, written out: {canonicalName}-{changeType}-{name}
\* below {worktreeRoot}/{canonicalName}/
ExpectedBranch(key, type, nm) == REPO_MAP[key].name \o "-" \o type \o "-" \o nm
ExpectedPath(key, type, nm) ==
    "/repos/Tree/" \o REPO_MAP[key].name \o "/" \o ExpectedBranch(key, type, nm)

Returned(p) == cx[p].pc = "done"
CreateReturned(p) == Returned(p) /\ cx[p].op = "create"
DeleteReturned(p) == Returned(p) /\ cx[p].op = "delete"

\* C7: for every configured repository name, recognized type and name over
\* [A-Za-z0-9_-], both discovery parsers applied to the derived branch name /
\* directory name return exactly (type, name).
C7_RoundTrip ==
    parseOut # <<>> =>
        /\ parseOut[1] = [ok |-> TRUE, type |-> parseIn.type, name |-> parseIn.name]
        /\ parseOut[2] = parseOut[1]

\* a name that starts with a hyphen and contains one has been parsed back
C7_Witness ==
    /\ parseOut # <<>>
    /\ parseIn.name = "-a-"
    /\ parseOut[1].name = "-a-"

Target(p) == worktreePath(cx[p])
TargetBranch(p) == branchName(cx[p])
Before(p) == cx[p].pre

SameRequestAgain(p) ==
    /\ CreateReturned(p)
    /\ cx[p].prev.kind = "create" /\ cx[p].prev.result = "ok"
    /\ cx[p].prev.repo = cx[p].repo /\ cx[p].prev.type = cx[p].type
    /\ cx[p].prev.name = cx[p].name /\ cx[p].prev.base = cx[p].base

\* C1: a create that directly follows a successful create with the same
\* (repository, changeType, name, baseBranch) succeeds too, returns the same
\* branch and path, and got there by a replace: it took the existing
\* same-branch registration at the target path away and added it again.
C1_Idempotent ==
    \A p \in Procs :
        SameRequestAgain(p) =>
            /\ cx[p].result = "ok"
            /\ cx[p].branch = cx[p].prev.branch
            /\ cx[p].path = cx[p].prev.path
            /\ cx[p].replaced /\ cx[p].added

C1_Witness ==
    \E p \in Procs : SameRequestAgain(p) /\ cx[p].result = "ok" /\ cx[p].replaced

C3_PathConflictSafe ==
    \A p \in Procs :
        CreateReturned(p) /\ Before(p).fs[Target(p)] = "repo" =>
            /\ cx[p].result = "PathConflict"
            /\ fs = Before(p).fs /\ reg = Before(p).reg
            /\ Before(p).heads \subseteq heads
            /\ cloned = Before(p).cloned
            /\ ~cx[p].fsChanged

\* the conflicting path is also registered in git, to the target branch
C3_Witness ==
    \E p \in Procs :
        /\ CreateReturned(p) /\ Before(p).fs[Target(p)] = "repo"
        /\ Before(p).reg[Target(p)] = TargetBranch(p)
        /\ cx[p].result = "PathConflict"

MismatchBefore(p) ==
    /\ Before(p).fs[Target(p)] \in {"wt", "dir"}
    /\ Before(p).reg[Target(p)] \notin {NONE, TargetBranch(p)}

\* C4: create on a directory registered at the target path with another
\* branch answers BranchMismatch and leaves the directory and its
\* registration as they were, whatever the git commands it issued returned.
C4_BranchMismatchSafe ==
    \A p \in Procs :
        CreateReturned(p) /\ MismatchBefore(p) =>
            /\ cx[p].result = "BranchMismatch"
            /\ fs[Target(p)] = Before(p).fs[Target(p)]
            /\ reg[Target(p)] = Before(p).reg[Target(p)]

Canonical(repo) == IF repo \in DOMAIN REPO_MAP THEN REPO_MAP[repo].name ELSE repo
KeyOf(repo) ==
    IF repo \in DOMAIN REPO_MAP THEN repo
    ELSE CHOOSE k \in DOMAIN REPO_MAP : REPO_MAP[k].name = repo

\* C5: when create returns success, the branch is
\* {canonicalName}-{changeType}-{name}, the path is
\* {worktreeRoot}/{canonicalName}/{branch}, and at the moment of the return a
\* worktree is registered at that path, its directory exists and it has that
\* branch checked out.
C5_SuccessConsistent ==
    \A p \in Procs :
        /\ cx[p].op = "create" /\ cx[p].result = "ok"
        /\ cx[p].pc \in {"c_backlog", "done"}
        => /\ cx[p].branch = ExpectedBranch(KeyOf(cx[p].repo), cx[p].type, cx[p].name)
           /\ cx[p].path = ExpectedPath(KeyOf(cx[p].repo), cx[p].type, cx[p].name)
           /\ cx[p].path \in Paths
           /\ cx[p].post.fs[cx[p].path] = "wt"
           /\ cx[p].post.reg[cx[p].path] = cx[p].branch

InSteps(p) == cx[p].pc \notin {"idle", "done"}

\* C6: no two create/delete operations on the same repository clone are
\* between their first and their last step at the same time.
C6_MutualExclusion ==
    \A p, q \in Procs : p # q => ~(InSteps(p) /\ InSteps(q))

DeletePath(p) == fullWorktreePath(cx[p])

\* C8: delete on an existing directory (clone present) answers success exactly
\* when the directory is gone after its removal step; it fails only when
\* rmSync failed; a directory without a git registration is removed and the
\* answer is success.
C8_DeleteSucceedsIffGone ==
    \A p \in Procs :
        /\ DeleteReturned(p)
        /\ existsSync(Before(p), DeletePath(p)) /\ Before(p).cloned
        => /\ (cx[p].result = "ok") <=> ~existsSync(cx[p].post, DeletePath(p))
           /\ cx[p].result # "ok" => cx[p].rmFailed
           /\ Before(p).reg[DeletePath(p)] = NONE /\ ~cx[p].rmFailed
              => cx[p].result = "ok" /\ cx[p].post.fs[DeletePath(p)] = "absent"

\* delete succeeded on a directory that had no git registration
C8_Witness ==
    \E p \in Procs :
        /\ DeleteReturned(p) /\ cx[p].result = "ok"
        /\ Before(p).cloned
        /\ Before(p).fs[DeletePath(p)] = "dir"
        /\ Before(p).reg[DeletePath(p)] = NONE

\* C9: delete for a directory that does not exist, or without a clone,
\* answers NotFound, runs no git command, changes nothing on disk and
\* calls no backlog callback.
C9_NotFoundNoEffect ==
    \A p \in Procs :
        /\ DeleteReturned(p)
        /\ ~existsSync(Before(p), DeletePath(p)) \/ ~Before(p).cloned
        => /\ cx[p].result = "NotFound"
           /\ ~cx[p].gitUsed /\ ~cx[p].fsChanged /\ ~cx[p].backlog
           /\ World = Before(p)

\* the clone is there and so is a registration, but the directory is not
C9_Witness ==
    \E p \in Procs :
        /\ DeleteReturned(p) /\ cx[p].result = "NotFound"
        /\ Before(p).cloned
        /\ Before(p).reg[DeletePath(p)] # NONE

PrunableBefore(p) ==
    /\ Before(p).reg[Target(p)] = TargetBranch(p)
    /\ Before(p).fs[Target(p)] = "absent"

\* C10: create for an identity whose directory was deleted while git kept
\* its registration succeeds and leaves exactly one registration of the
\* branch, at the derived path, with the directory present.
C10_PrunableRecreated ==
    \A p \in Procs :
        CreateReturned(p) /\ PrunableBefore(p) =>
            /\ cx[p].result = "ok"
            /\ reg[Target(p)] = TargetBranch(p)
            /\ fs[Target(p)] = "wt"
            /\ Cardinality({q \in Paths : reg[q] = TargetBranch(p)}) = 1

C10_Witness ==
    \E p \in Procs :
        /\ CreateReturned(p) /\ PrunableBefore(p)
        /\ cx[p].prev.kind = "outside"
        /\ cx[p].result = "ok"

\* C11: create for an identity leaves alone every other worktree of the
\* repository: a registered worktree directory whose branch is not the
\* target branch has the same directory and the same registration (path and
\* checked-out branch) when create returns.
C11_OthersUntouched ==
    \A p \in Procs :
        CreateReturned(p) =>
            \A q \in Paths :
                /\ Before(p).fs[q] = "wt"
                /\ Before(p).reg[q] \notin {NONE, TargetBranch(p)}
                => fs[q] = Before(p).fs[q] /\ reg[q] = Before(p).reg[q]

\* C12: once `git worktree add` has succeeded, create returns success: a
\* failure of a later (advisory) step does not change the result.
C12_AdvisoryAbsorbed ==
    \A p \in Procs :
        CreateReturned(p) /\ cx[p].added => cx[p].result = "ok"

FirstLocalDefault ==
    IF "dev" \in heads THEN "dev"
    ELSE IF "main" \in heads THEN "main"
    ELSE IF "master" \in heads THEN "master" ELSE "dev"

HintUsable(p) == cx[p].base # NONE /\ (cx[p].base \in heads \/ cx[p].base \in remote)

AboutToAddNew(p) ==
    /\ cx[p].op = "create" /\ cx[p].pc = "c_add"
    /\ ~cx[p].branchExists /\ TargetBranch(p) \notin heads
    /\ ~cx[p].probeFault

\* C13: for a target branch that does not exist yet, the base ref handed to
\* `git worktree add -b` is the hint when the hint exists locally or on
\* origin, and otherwise (no hint or a hint found nowhere) the first of dev,
\* main, master that exists locally, else dev.
C13_BaseRef ==
    \A p \in Procs :
        AboutToAddNew(p) =>
            cx[p].resolved = IF HintUsable(p) THEN cx[p].base ELSE FirstLocalDefault

-----------------------------------------------------------------------------
(* Discovery: the merge of the two passes *)

\* the normalized path of a record of the response
NormalizedOf(r) == normalizePathFor(hostRoot, r.path)

\* the worktree at p, as it stood when GET began, qualifies for the
\* git-registry pass / for the filesystem pass
FoundByRegistry(p) ==
    /\ ls.pre.fs[p] = "wt" /\ ls.pre.reg[p] # NONE /\ ls.pre.gdir[p] = p
    /\ parseRegistryBranch(Repo, ls.pre.reg[p]).ok
FoundByFs(p) ==
    /\ ls.pre.fs[p] = "wt"
    /\ parseFsDirName(Repo, Basename(p)).ok

RecordsAt(p) == {i \in DOMAIN ls.out : NormalizedOf(ls.out[i]) = p}

\* C14: list() never holds two records with the same normalized path, and a
\* worktree both passes find is reported exactly once, by the record of the
\* git-registry pass.
C14_MergedOnce ==
    /\ \A i, j \in DOMAIN ls.out :
          i # j => NormalizedOf(ls.out[i]) # NormalizedOf(ls.out[j])
    /\ ls.pc = "done" =>
          \A p \in Paths :
              FoundByRegistry(p) /\ FoundByFs(p) =>
                  /\ Cardinality(RecordsAt(p)) = 1
                  /\ \A i \in RecordsAt(p) : ls.out[i].pass = "registry"

C14_Witness ==
    /\ ls.pc = "done" /\ Len(ls.out) = 2
    /\ \E p \in Paths : FoundByRegistry(p) /\ FoundByFs(p)
    /\ \E i \in DOMAIN ls.out : ls.out[i].pass = "fs"

\* GET has returned and nothing has happened since
ListReturned == ls.pc = "done" /\ lastDone.kind = "list"

\* C15: list() is read-only: when it returns, every pointer file, every
\* gitdir file, every registration, every directory and every branch is as
\* it was when the call began, whatever the container root and host root.
C15_ListReadOnly ==
    ListReturned =>
        /\ ptr = ls.pre.ptr /\ gdir = ls.pre.gdir
        /\ reg = ls.pre.reg /\ fs = ls.pre.fs
        /\ heads = ls.pre.heads /\ mainHead = ls.pre.mainHead

\* C16: after create or list has written a pointer file the file holds the
\* container form, and no git command runs inside a worktree whose pointer
\* file holds anything else.
C16_ContainerFormKept ==
    /\ ListReturned => \A p \in ls.wrote : ptr[p] = gitdirPointer(ROOT_DIR, p)
    /\ ListIdle /\ lastDone.kind = "create" /\ lastDone.path \in Paths =>
          ptr[lastDone.path] = gitdirPointer(ROOT_DIR, lastDone.path)
    /\ ~ls.gitAtHostForm

-----------------------------------------------------------------------------
(* POST over several repositories *)

\* POST has answered a request that passed validation
PostAnswered == rq.pc = "done" /\ rq.status # 400

\* C17: in a create request naming several repositories every entry is
\* attempted exactly once, in order, whatever the others' outcome; a
\* worktree created for one entry is still there when the response is sent;
\* every success and every failure is reported, and the request fails as a
\* whole only when every entry failed.
C17_EachAttemptedOnce ==
    PostAnswered =>
        /\ rq.attempts = rq.repos
        /\ \A i \in DOMAIN rq.repos :
              LET wt == worktreeOf(rq.repos[i], rq.type, rq.name) IN
              IF rq.outcomes[i]
              THEN /\ wt.path \in made
                   /\ Cardinality({k \in DOMAIN rq.results : rq.results[k] = wt}) = 1
                   /\ \A k \in DOMAIN rq.errors : rq.errors[k].repo # rq.repos[i]
              ELSE /\ Cardinality({k \in DOMAIN rq.errors :
                                     rq.errors[k].repo = rq.repos[i]}) = 1
                   /\ \A k \in DOMAIN rq.results : rq.results[k] # wt
        /\ Len(rq.results) + Len(rq.errors) = Len(rq.repos)
        /\ rq.status = 500 <=> \A i \in DOMAIN rq.outcomes : ~rq.outcomes[i]
        /\ rq.status \in {200, 500}

C17_Witness ==
    /\ PostAnswered /\ rq.status = 200
    /\ rq.outcomes = <<TRUE, FALSE, TRUE>>

\* the characters of [A-Za-z0-9_-], by their representatives
MatchesNamePattern(s) ==
    Len(s) > 0 /\ \A i \in 1..Len(s) : SubSeq(s, i, i) \in NameChars

\* p is a direct child of directory d
DirectChild(p, d) ==
    /\ StartsWith(p, d \o "/")
    /\ ~Includes(SubSeq(p, Len(d) + 2, Len(p)), "/")

\* C19: create acts only on names matching [A-Za-z0-9_-]+: no entry is
\* attempted for any other name, and every worktree path derived is a direct
\* child of <WORKTREE_ROOT>/<canonical name>/.
C19_NamePattern ==
    /\ rq.attempts # <<>> => MatchesNamePattern(rq.name)
    /\ \A k \in DOMAIN rq.results :
          DirectChild(rq.results[k].path, Join(WORKTREE_ROOT, rq.results[k].repoName))

\* C18: two creates for different identities of the repository, their steps
\* interleaved in any order, both succeed and leave both worktrees
\* registered with their directories present.
C18_ConcurrentCreates ==
    (\A p \in Procs : CreateReturned(p)) /\ Target(1) # Target(2) =>
        \A p \in Procs :
            /\ cx[p].result = "ok"
            /\ fs[Target(p)] = "wt" /\ reg[Target(p)] = TargetBranch(p)

-----------------------------------------------------------------------------
(* Resolution of repository identifiers *)

\* the descriptor of the repository configured under key k
DescriptorOf(k) ==
    [found |-> TRUE, key |-> k, name |-> conf.REPO_MAP[k].name,
     url |-> conf.REPO_MAP[k].url]

ConfiguredNames == {conf.REPO_MAP[k].name : k \in DOMAIN conf.REPO_MAP}

-----------------------------------------------------------------------------
(* The backlog callback *)

\* the handler of request p is about to call, or is awaiting, the callback
AtBacklog(p) == cx[p].pc \in {"c_backlog", "d_backlog", "awaiting"}

\* C21: the backlog callback is invoked only after the worktree has been
\* added (create) or the directory is gone (delete); the handler's return
\* does not wait for it: whether the callback succeeds, fails or never
\* completes, the handler can go on to its answer, and the answer is success.
C21_BacklogIndependent ==
    \A p \in Procs :
        /\ AtBacklog(p) =>
              IF cx[p].op = "create"
              THEN fs[Target(p)] = "wt" /\ reg[Target(p)] = TargetBranch(p)
              ELSE ~existsSync(World, DeletePath(p))
        /\ AtBacklog(p) => ENABLED Step(p)
        /\ Returned(p) /\ cx[p].backlog => cx[p].result = "ok"

\* create is about to issue `git worktree add`
AboutToAdd(p) == cx[p].op = "create" /\ cx[p].pc = "c_add"

\* C22: whenever create issues `git worktree add`, the target path does not
\* exist, the target branch is registered to no other worktree, and the
\* target branch is not checked out in the primary clone.
C22_CleanBeforeAdd ==
    \A p \in Procs :
        AboutToAdd(p) =>
            /\ ~existsSync(World, Target(p))
            /\ \A q \in Paths \ {Target(p)} : reg[q] # TargetBranch(p)
            /\ mainHead # TargetBranch(p)

\* C23: every record list() returns refers to a directory that exists, whose
\* .git is a file, that is not the primary clone's path, that git does not
\* mark prunable, whose branch or directory name starts with
\* `{canonicalName}-`, and whose type is one of the types create accepts.
C23_RecordsAreWorktrees ==
    ListReturned =>
    \A i \in DOMAIN ls.out :
        LET r == ls.out[i] IN
        /\ r.path \in Paths /\ fs[r.path] = "wt"
        /\ r.path # repoPath
        /\ ~prunableHere(r.path)
        /\ StartsWith(r.branch, Repo \o "-") \/ StartsWith(Basename(r.path), Repo \o "-")
        /\ r.type \in VALID_TYPES

\* GET began right after a successful create and has returned
ListedAfterCreate ==
    ListReturned /\ ls.made.kind = "create" /\ ls.made.result = "ok"

\* C24: a list() that follows a successful create for identity X holds
\* exactly one record whose path is X's derived path, and that record
\* carries X's repository key, type, name and derived branch.
C24_CreatedIsListed ==
    ListedAfterCreate =>
        LET X == ls.made
            hits == {i \in DOMAIN ls.out :
                        ls.out[i].path = worktreePathOf(Repo, X.type, X.name)}
        IN  /\ Cardinality(hits) = 1
            /\ \A i \in hits :
                  /\ ls.out[i].repo = resolve(X.repo).key
                  /\ ls.out[i].type = X.type
                  /\ ls.out[i].name = X.name
                  /\ ls.out[i].branch = branchNameOf(Repo, X.type, X.name)

\* the listing followed a create under a host root that differs from the
\* container root, and holds the other worktree as well
C24_Witness ==
    /\ ListedAfterCreate
    /\ hostRoot # ROOT_DIR
    /\ Len(ls.out) = 2
    /\ \E i \in DOMAIN ls.out : ls.out[i].path = ls.made.path

\* C25: delete removes no directory other than the worktree directory
\* derived from the identity it was given, and never a directory whose .git
\* is a directory, whatever explicit path the caller supplies.
C25_DeleteOnlyDerived ==
    \A p \in Procs :
        DeleteReturned(p) =>
            \A q \in Paths :
                /\ q # Target(p) /\ Before(p).fs[q] # "absent" => fs[q] # "absent"
                /\ Before(p).fs[q] = "repo" => fs[q] = "repo"

\* both requests are creates for one identity and both have returned
BothCreatedSame ==
    /\ \A p \in Procs : CreateReturned(p)
    /\ cx[1].repo = cx[2].repo /\ cx[1].type = cx[2].type /\ cx[1].name = cx[2].name

CreateFailed(p) == CreateReturned(p) /\ cx[p].result # "ok"

\* C27: when create returns failure, every worktree directory and every
\* worktree registration that existed before the call still exists.
C27_FailureLeavesNothingBehind ==
    \A p \in Procs :
        CreateFailed(p) =>
            \A q \in Paths :
                /\ Before(p).fs[q] = "wt" => fs[q] = "wt"
                /\ Before(p).reg[q] # NONE => reg[q] = Before(p).reg[q]

\* C28: create changes the branch checked out in the primary clone only
\* when the clone's HEAD is the target branch; otherwise the branch checked
\* out there is the same after create as before it.
C28_MainHeadKept ==
    \A p \in Procs :
        /\ CreateReturned(p)
        /\ Before(p).cloned /\ Before(p).mainHead # TargetBranch(p)
        => mainHead = Before(p).mainHead

\* C29: the credential token appears in no value create, list or delete
\* returns; in particular not in the error returned when cloning fails.
C29_TokenNotReturned ==
    /\ \A p \in Procs : Returned(p) => ~Includes(errorOf(cx[p]), TokenValue)
    /\ \A i \in DOMAIN ls.out :
          ~Includes(ls.out[i].path, TokenValue) /\ ~Includes(ls.out[i].branch, TokenValue)

-----------------------------------------------------------------------------
(* Path normalization *)

\* the path handed in lies below the container root
ContainerForm == StartsWith(normIn.path, normIn.root \o "/")

\* C30: for every pair of roots, normalization leaves a path that is already
\* in container form unchanged (but for a trailing slash) and is idempotent.
C30_NormalizeIdempotent ==
    normOut # <<>> =>
        /\ ContainerForm => normOut[1] = StripSlash(normIn.path)
        /\ normOut[2] = normOut[1]

====
